---------------------------- MODULE Spec2Model ----------------------------
(***************************************************************************)
(* Model of src/rape.py: a discretized Bayesian posterior over a           *)
(* proportion rho, and the search for its highest-density interval (HDI).  *)
(*                                                                         *)
(* Numbers.  The program computes in floating point; the model computes    *)
(* exactly, every real of one run being an integer multiple of a unit:     *)
(*   endpoints, lend, rend, lengths  : units of 1 / (bins * XUnit)         *)
(*   prior                           : units of 1                          *)
(*   likelihood, marginal            : units of 1 / (bins * XUnit)^n       *)
(*   post[i]                         : the fraction  num[i] / marginal     *)
(*   cdf, 1 - coverage, rprobvalue   : units of 1 / (marginal * CovDen)    *)
(*   coverage                        : the fraction  coverage / CovDen     *)
(* A fraction 0/0 is the NaN that numpy's float division yields.           *)
(* Indices are 1-based here and 0-based in the source: index i of the      *)
(* model is index i-1 of the program.                                      *)
(***************************************************************************)
EXTENDS Integers, Sequences, FiniteSets, TLC

VARIABLES
    pc,          \* position in the script, or in the call of round_in_list
    raised,      \* the exception the run ended with, "" when none
    the_list,    \* round_in_list: argument the_list
    x,           \* round_in_list: argument x
    value,       \* round_in_list: argument value
    ret,         \* round_in_list: the returned index or value
    bins,        \* script: number of subintervals
    coverage,    \* script: size of the HDI (numerator over CovDen)
    k,           \* script: number who answered 'yes'
    n,           \* script: total respondents
    rho,         \* script: the data frame, columns endpoint, prior, likelihood, post
    priors,      \* script: the prior density at each endpoint
    marginal,    \* script: Pr(r)
    xmin,        \* minimize_scalar: best point so far
    hdi_left,    \* script: left end of the HDI
    hdi_length,  \* script: length of the HDI, [inf, v]
    hdi_right,   \* script: right end of the HDI, [inf, v]
    hdi_y        \* script: height of the HDI line (numerator over marginal)

vars == <<pc, raised, the_list, x, value, ret, bins, coverage, k, n, rho,
          priors, marginal, xmin, hdi_left, hdi_length, hdi_right, hdi_y>>

roundVars == <<the_list, x, value, ret>>
scriptVars == <<bins, coverage, k, n, rho, priors, marginal, xmin, hdi_left,
                hdi_length, hdi_right, hdi_y>>

---------------------------------------------------------------------------
(* Bounds of the model *)

MaxLen == 3      \* longest list handed to round_in_list on its own
MaxVal == 4      \* largest element of such a list
MaxBins == 3     \* largest number of subintervals
MaxPrior == 1    \* largest prior density value
MaxN == 2        \* largest number of respondents
CovDen == 3      \* coverage ranges over 1/CovDen .. (CovDen-1)/CovDen
XUnit == 4       \* a grid step is XUnit units: lend falls on and between grid points

---------------------------------------------------------------------------
(* Values *)

Finite(v) == [inf |-> FALSE, v |-> v]
inf == [inf |-> TRUE, v |-> 0]

\* a <= b on the reals extended by +infinity
ExtLeq(a, b) == b.inf \/ (~a.inf /\ a.v <= b.v)

Abs(a) == IF a < 0 THEN -a ELSE a

RECURSIVE Pow(_, _)
Pow(b, e) == IF e = 0 THEN 1 ELSE b * Pow(b, e - 1)

RECURSIVE SumSeq(_)
SumSeq(s) == IF s = <<>> THEN 0 ELSE s[1] + SumSeq(Tail(s))

---------------------------------------------------------------------------
(* round_in_list *)

\* the while loop: the first place where the list item is not less than x
RECURSIVE scan(_, _, _)
scan(xx, list, i) ==
    IF list[i] < xx /\ i < Len(list) THEN scan(xx, list, i + 1) ELSE i

\* "If x is closer to the i-1st element"
closer_to_previous_flipped(xx, list, i) == (xx - list[i-1]) > (list[i] - xx)
closer_to_previous_or_tied(xx, list, i) == (xx - list[i-1]) <= (list[i] - xx)
closer_to_previous(xx, list, i) == (xx - list[i-1]) < (list[i] - xx)

\* the index round_in_list ends with, for a non-empty list
round_index(xx, list) ==
    LET i == scan(xx, list, 1)
    IN  IF i = 1 THEN i
        ELSE IF closer_to_previous(xx, list, i) THEN i - 1 ELSE i

round_in_list(xx, list, val) ==
    IF val THEN list[round_index(xx, list)] ELSE round_index(xx, list)

\* lists sorted from smallest to largest, the empty one included
SortedLists ==
    { s \in UNION { [1..m -> 0..MaxVal] : m \in 0..MaxLen } :
        \A i \in 1..(Len(s) - 1) : s[i] <= s[i+1] }

Queries == (-1)..(MaxVal + 1)

---------------------------------------------------------------------------
(* density_interval_length *)

\* cdf.append(...): the running sum of the PDF column, in units of 1/pdf.den
RECURSIVE build_cdf(_, _)
build_cdf(rows, i) ==
    IF i = 0 THEN <<>>
    ELSE IF i = 1 THEN <<rows[1][2]>>
    ELSE LET cdf == build_cdf(rows, i - 1)
         IN  Append(cdf, cdf[i-1] + rows[i][2])

\* pdf[:,0].tolist()
xvalues(pdf) == [i \in 1..Len(pdf.rows) |-> pdf.rows[i][1]]

\* cdf[index] > 1 - coverage, both sides in units of 1/(pdf.den * CovDen)
too_large(c, cov, den) == c * CovDen > (CovDen - cov) * den

\* rprobvalue = cdf[index] + coverage, in units of 1/(pdf.den * CovDen)
right_prob_value(c, cov, den) == c * CovDen + cov * den

\* the list round_in_list searches for the right endpoint
right_search_list_x(pdf, cdf) == xvalues(pdf)
right_search_list(pdf, cdf) == [i \in 1..Len(cdf) |-> cdf[i] * CovDen]

\* the right index of the interval that starts at row index
right_index(pdf, cdf, index, cov) ==
    round_in_list(right_prob_value(cdf[index], cov, pdf.den),
                  right_search_list(pdf, cdf), FALSE)

\* pdf = [rows |-> <<x, numerator>> per grid point, den |-> common denominator].
\* With den = 0 every PDF value is NaN, so is every cdf entry and rprobvalue:
\* cdf[index] > 1-coverage is False, and in round_in_list(NaN, cdf) the loop
\* test the_list[0] < x is False, so rindex is the first row.
density_interval_length(lend, pdf, cov) ==
    LET cdf == build_cdf(pdf.rows, Len(pdf.rows))
        index == round_in_list(lend, xvalues(pdf), FALSE)
    IN  IF pdf.den = 0 THEN Finite(pdf.rows[1][1] - lend)
        ELSE IF too_large(cdf[index], cov, pdf.den) THEN inf
        ELSE Finite(pdf.rows[right_index(pdf, cdf, index, cov)][1] - lend)

---------------------------------------------------------------------------
(* The script *)

\* the real number 1 in endpoint units
Unit(b) == b * XUnit

\* endpoints = [x/bins for x in range(bins)]
endpoints(b) == [i \in 1..b |-> (i - 1) * XUnit]

\* scipy.misc.comb: the binomial coefficient
RECURSIVE comb(_, _)
comb(nn, kk) ==
    IF kk < 0 \/ kk > nn THEN 0
    ELSE IF kk = 0 \/ kk = nn THEN 1
    ELSE comb(nn - 1, kk - 1) + comb(nn - 1, kk)

\* binom_coeff * rho['endpoint']**k * (1-rho['endpoint'])**(n-k)
likelihood_column(endpoint, b, kk, nn) ==
    [i \in 1..Len(endpoint) |->
        comb(nn, kk) * Pow(endpoint[i], kk) * Pow(Unit(b) - endpoint[i], nn - kk)]

\* sum(rho['likelihood'] * rho['prior'])
marginal_without_prior(likelihood, prior) == SumSeq(likelihood)
marginal_sum(likelihood, prior) ==
    SumSeq([i \in 1..Len(likelihood) |-> likelihood[i] * prior[i]])

\* rho['likelihood'] * rho['prior'] / marginal: the numerators, over marginal
post_column(likelihood, prior) ==
    [i \in 1..Len(likelihood) |-> likelihood[i] * prior[i]]

\* pdf = rho[['endpoint', 'post']].values
pdf ==
    [rows |-> [i \in 1..Len(rho.post) |-> <<rho.endpoint[i], rho.post[i]>>],
     den  |-> marginal]

\* lambda x : density_interval_length(x, pdf, coverage)
f(u) == density_interval_length(u, pdf, coverage)

\* the points minimize_scalar may evaluate the lambda at
Lends(b) == (-1)..(Unit(b) + 1)

\* round_in_list of a value that may be +infinity: the loop runs to the last
\* element and the comparison inf - l[i-1] < l[i] - inf is False
round_ext(e, list) ==
    IF e.inf THEN Len(list) ELSE round_in_list(e.v, list, FALSE)

Max2(a, b) == IF a >= b THEN a ELSE b

PriorTables(b) == [1..b -> 0..MaxPrior]

InitScript ==
    /\ pc = "start"
    /\ raised = ""
    /\ the_list = <<>> /\ x = 0 /\ value = FALSE /\ ret = 0
    /\ bins \in 1..MaxBins
    /\ coverage \in 1..(CovDen - 1)
    /\ n \in 0..MaxN
    /\ k \in 0..n
    /\ priors \in PriorTables(bins)
    /\ rho = [endpoint |-> <<>>, prior |-> <<>>, likelihood |-> <<>>, post |-> <<>>]
    /\ marginal = 0
    /\ xmin = 0
    /\ hdi_left = 0
    /\ hdi_length = Finite(0)
    /\ hdi_right = Finite(0)
    /\ hdi_y = 0

inputs == <<bins, coverage, k, n, priors>>

\* rho = pd.DataFrame(...); rho['endpoint'] = endpoints; rho['prior'] = priors
BuildFrame ==
    /\ pc = "start"
    /\ rho' = [rho EXCEPT !.endpoint = endpoints(bins), !.prior = priors]
    /\ pc' = "likelihood"
    /\ UNCHANGED <<raised, roundVars, inputs, marginal, xmin, hdi_left,
                   hdi_length, hdi_right, hdi_y>>

Likelihood ==
    /\ pc = "likelihood"
    /\ rho' = [rho EXCEPT !.likelihood = likelihood_column(rho.endpoint, bins, k, n)]
    /\ pc' = "marginal"
    /\ UNCHANGED <<raised, roundVars, inputs, marginal, xmin, hdi_left,
                   hdi_length, hdi_right, hdi_y>>

Marginal ==
    /\ pc = "marginal"
    /\ marginal' = marginal_sum(rho.likelihood, rho.prior)
    /\ pc' = "post"
    /\ UNCHANGED <<raised, roundVars, inputs, rho, xmin, hdi_left,
                   hdi_length, hdi_right, hdi_y>>

\* the division raises nothing: a zero marginal leaves NaN in the column
Posterior ==
    /\ pc = "post"
    /\ rho' = [rho EXCEPT !.post = post_column(rho.likelihood, rho.prior)]
    /\ pc' = "minimize"
    /\ UNCHANGED <<raised, roundVars, inputs, marginal, xmin, hdi_left,
                   hdi_length, hdi_right, hdi_y>>

\* minimize_scalar evaluates the lambda at a first point
MinimizeStart ==
    /\ pc = "minimize"
    /\ \E u \in Lends(bins) : xmin' = u
    /\ pc' = "iterate"
    /\ UNCHANGED <<raised, roundVars, inputs, rho, marginal, hdi_left,
                   hdi_length, hdi_right, hdi_y>>

\* ... and at further points, keeping the best one
MinimizeStep ==
    /\ pc = "iterate"
    /\ \E u \in Lends(bins) :
         xmin' = IF ExtLeq(f(u), f(xmin)) THEN u ELSE xmin
    /\ UNCHANGED <<pc, raised, roundVars, inputs, rho, marginal, hdi_left,
                   hdi_length, hdi_right, hdi_y>>

\* hdi_left = minimize_scalar(...)['x']
MinimizeReturn ==
    /\ pc = "iterate"
    /\ hdi_left' = xmin
    /\ pc' = "length"
    /\ UNCHANGED <<raised, roundVars, inputs, rho, marginal, xmin,
                   hdi_length, hdi_right, hdi_y>>

\* hdi_length = density_interval_length(hdi_left, pdf, coverage)
\* hdi_right = hdi_left + hdi_length
HdiLength ==
    /\ pc = "length"
    /\ hdi_length' = f(hdi_left)
    /\ hdi_right' = IF hdi_length'.inf THEN inf
                    ELSE Finite(hdi_left + hdi_length'.v)
    /\ pc' = "height"
    /\ UNCHANGED <<raised, roundVars, inputs, rho, marginal, xmin,
                   hdi_left, hdi_y>>

\* hdi_y = max([rho['post'][...hdi_left...], rho['post'][...hdi_right...]])
HdiHeight ==
    /\ pc = "height"
    /\ hdi_y' = Max2(rho.post[round_in_list(hdi_left, rho.endpoint, FALSE)],
                     rho.post[round_ext(hdi_right, rho.endpoint)])
    /\ pc' = "done"
    /\ UNCHANGED <<raised, roundVars, inputs, rho, marginal, xmin,
                   hdi_left, hdi_length, hdi_right>>

Next ==
    \/ BuildFrame
    \/ Likelihood
    \/ Marginal
    \/ Posterior
    \/ MinimizeStart
    \/ MinimizeStep
    \/ MinimizeReturn
    \/ HdiLength
    \/ HdiHeight

Spec == InitScript /\ [][Next]_vars

---------------------------------------------------------------------------
(* A call of round_in_list on its own *)

InitRound ==
    /\ pc = "call"
    /\ raised = ""
    /\ the_list \in SortedLists
    /\ x \in Queries
    /\ value \in BOOLEAN
    /\ ret = 0
    /\ bins = 1 /\ coverage = 1 /\ k = 0 /\ n = 0
    /\ priors = <<>>
    /\ rho = [endpoint |-> <<>>, prior |-> <<>>, likelihood |-> <<>>, post |-> <<>>]
    /\ marginal = 0
    /\ xmin = 0
    /\ hdi_left = 0
    /\ hdi_length = Finite(0)
    /\ hdi_right = Finite(0)
    /\ hdi_y = 0

\* raise ValueError('Empty list passed to round_in_list')
RoundRaise ==
    /\ pc = "call"
    /\ Len(the_list) = 0
    /\ raised' = "ValueError"
    /\ pc' = "raised"
    /\ UNCHANGED <<roundVars, scriptVars>>

RoundReturn ==
    /\ pc = "call"
    /\ Len(the_list) # 0
    /\ ret' = round_in_list(x, the_list, value)
    /\ pc' = "returned"
    /\ UNCHANGED <<raised, the_list, x, value, scriptVars>>

NextRound ==
    \/ RoundRaise
    \/ RoundReturn

SpecRound == InitRound /\ [][NextRound]_vars

---------------------------------------------------------------------------
(* Properties of round_in_list, under SpecRound *)

StrictlyIncreasing(list) == \A i \in 1..(Len(list) - 1) : list[i] < list[i+1]

\* x is exactly half way between the_list[i-1] and the_list[i]
TieAt(i) == the_list[i-1] < x /\ x - the_list[i-1] = the_list[i] - x

\* C1: for a non-empty sorted list and any query x, below, inside or above
\* the list, round_in_list returns an index of the list whose element is at
\* least as close to x as every other element of the list.
C1_NearestIndex ==
    (pc = "returned" /\ ~value) =>
        /\ ret \in 1..Len(the_list)
        /\ \A j \in 1..Len(the_list) :
              Abs(the_list[ret] - x) <= Abs(the_list[j] - x)

C1_Witness ==
    /\ pc = "returned" /\ ~value
    /\ Len(the_list) = 3
    /\ the_list[1] < x /\ x < the_list[2] /\ the_list[2] < the_list[3]
    /\ x - the_list[1] < the_list[2] - x
    /\ ret = 1

---------------------------------------------------------------------------
(* Properties of the script, under Spec *)

\* the posterior column is filled
PostFilled == pc \in {"minimize", "iterate", "length", "height", "done"}

\* hdi_length holds density_interval_length(hdi_left, pdf, coverage)
LengthKnown == pc \in {"height", "done"}

\* the prefix sum of the posterior numerators up to row j
CdfAt(j) == SumSeq(SubSeq(rho.post, 1, j))

\* the row density_interval_length rounds hdi_left to
LeftIndex == round_in_list(hdi_left, rho.endpoint, FALSE)

\* the right row density_interval_length chooses for hdi_left
RightIndex ==
    round_in_list(CdfAt(LeftIndex) * CovDen + coverage * marginal,
                  [j \in 1..Len(rho.post) |-> CdfAt(j) * CovDen], FALSE)

\* every candidate left endpoint yields +infinity
AllInf == \A u \in Lends(bins) : f(u).inf

\* C3, as claimed: a finite density_interval_length describes an interval
\* that covers at least the requested coverage,
\* cdf[rindex] - cdf[index] >= coverage.
C3_FiniteCovers ==
    (LengthKnown /\ marginal # 0 /\ ~hdi_length.inf) =>
        (CdfAt(RightIndex) - CdfAt(LeftIndex)) * CovDen >= coverage * marginal

\* C4, as claimed: the HDI's left endpoint has a finite length that is at
\* most the length of every candidate left endpoint on the grid, and
\* right = left + length.
C4_ShortestOnGrid ==
    (LengthKnown /\ marginal # 0) =>
        /\ ~hdi_length.inf
        /\ \A i \in 1..bins : ExtLeq(hdi_length, f(rho.endpoint[i]))
        /\ hdi_right = Finite(hdi_left + hdi_length.v)

\* C5, as claimed: for a normalized posterior and a coverage strictly
\* between 0 and 1, some left endpoint on the grid yields a finite
\* density_interval_length.
C5_SomeFinite ==
    (PostFilled /\ marginal # 0) =>
        \E i \in 1..bins : ~f(rho.endpoint[i]).inf

\* C6, as claimed: when every candidate left endpoint yields +infinity, the
\* HDI computation ends in UnsatisfiableCoverage and produces no result.
C6_UnsatisfiableRaised ==
    (pc = "done" /\ marginal # 0 /\ AllInf) => raised = "UnsatisfiableCoverage"

\* C7, as claimed: with a zero marginal the posterior computation ends in
\* DegeneratePosterior and the division is not performed.
C7_DegenerateRaised ==
    (PostFilled /\ marginal = 0) =>
        (raised = "DegeneratePosterior" /\ rho.post = <<>>)

\* C8: when the marginal is not zero the posterior has one entry per grid
\* point, in grid order, every entry is non-negative, and the entries sum
\* to 1 (the numerators sum to their common denominator, the marginal).
C8_PosteriorNormalized ==
    (PostFilled /\ marginal # 0) =>
        /\ Len(rho.post) = bins
        /\ Len(rho.post) = Len(rho.endpoint)
        /\ marginal > 0
        /\ \A i \in 1..bins : rho.post[i] >= 0
        /\ \A i \in 1..bins :
              rho.post[i] = rho.likelihood[i] * priors[i]
        /\ SumSeq(rho.post) = marginal

C8_Witness ==
    /\ pc = "done" /\ marginal # 0
    /\ bins = 3 /\ k = 2 /\ n = 2
    /\ rho.post[2] > 0 /\ rho.post[3] > rho.post[2]
    /\ priors[1] = 0 /\ priors[3] = 1

C10_LengthNonNegative ==
    (LengthKnown /\ marginal # 0) =>
        /\ hdi_length.inf \/ hdi_length.v >= 0
        /\ hdi_right.inf \/ hdi_right.v >= hdi_left

===========================================================================
